---- MODULE Spec2Model ----
(***************************************************************************)
(* Training orchestration of chatflip/tutorial_pytorch: the three entry    *)
(* points 2-classification_anime/py/main.py ("anime"),                     *)
(* 2_classification_food101_dp/py/main.py ("food101") and                  *)
(* 3-distribution_training/py/main.py ("dist").                            *)
(*                                                                         *)
(* One process per rank; every per-process variable is a function of the   *)
(* rank.  The single-process entry points run as rank 0 alone.  Files      *)
(* (weight directory, best-weights file, resume checkpoint) are shared.    *)
(***************************************************************************)
EXTENDS Integers, Sequences, FiniteSets

\* ------------------------------------------------------------------ bounds
MaxEpochs == 2
MaxMetric == 2
MaxRanks == 2
TrainSize == 3

\* Input domains of the configuration (args.py is outside the modelled files).
BatchSizes == {1, 2}
GpuCounts == {1, 2}

\* --workers of the command line
WorkerCounts == {2}
Metrics == 0..MaxMetric
Entries == {"anime", "food101", "dist"}

\* Python's None, for a value not yet created, a file that does not exist.
None == -1

\* torchvision weights loaded by resnet18(pretrained=True) / mobilenet_v2(...)
Pretrained == 0

\* Weights saved by an earlier, finished training run (a file on disk at start).
PriorWeights == MaxEpochs

\* The resume checkpoint path holds no file.
NoCheckpoint ==
    [model |-> None, optimizer |-> None, scheduler |-> None,
     epoch |-> None, best_acc |-> None]

\* A file torch.save has opened for writing and not yet written out: torch.save
\* writes to the path itself, so the old contents are gone and the new ones are
\* not there yet.  torch.load of such a file raises.
Partial == -2

PartialCheckpoint ==
    [model |-> Partial, optimizer |-> Partial, scheduler |-> Partial,
     epoch |-> Partial, best_acc |-> Partial]

VARIABLES
    entry,            \* which main.py runs
    opt,              \* the arguments as opt() parsed them
    amp,              \* TRUE iff "from apex import amp" succeeded
    env_world,        \* WORLD_SIZE of the launcher's environment, 0 = not set
    ngpus_per_node,   \* torch.cuda.device_count()
    args,             \* args[r]: the parsed arguments of process r
    pc,               \* pc[r]: position of process r in main
    group,            \* ranks that joined the process group
    train_loader,     \* train_loader[r]: len(train_loader), None before built
    model,            \* model[r]: weights, the epoch they were last trained in
    optimizer,        \* optimizer[r]: steps taken by the optimizer state
    scheduler,        \* scheduler[r]: last_epoch of the scheduler, None before built
    iteration,        \* iteration[r]
    best_acc,         \* best_acc[r]
    epoch,            \* epoch[r]: the loop variable
    acc,              \* acc[r]: result of the last validate call
    is_best,          \* is_best[r]
    checkpoint,       \* checkpoint[r]: the local "checkpoint" dict
    weight_dir,       \* TRUE iff the output directory exists
    best_file,        \* contents of the best-weights file, None if absent
    checkpoint_file,  \* contents of the resume checkpoint file
    resume_file,      \* contents of the file args.resume names, None if absent
    trained,          \* trained[r]: epochs whose training pass process r ran
    nval,             \* nval[r]: validation passes process r ran
    writes,           \* torch.save calls that wrote a file in this launch
    outcomes,         \* food101: outcomes[e], the validation metric of epoch e
    earlier_best,     \* highest metric rank 0 saw in the epochs before this one
    restarted,        \* TRUE once the program was launched a second time
    log_dir,          \* trained epochs of the earlier, interrupted launch
    sampler_epoch,    \* sampler_epoch[r]: train_sampler.epoch, None without one
    dataset_len,      \* len(train_dataset)
    randperm,         \* randperm[e]: the permutation torch.randperm draws under seed e
    shards,           \* shards[r]: the indices the sampler of rank r yields
    prev_shards       \* shards of the epoch before

samplerVars == <<dataset_len, randperm, shards, prev_shards>>
envVars == <<entry, opt, amp, env_world, ngpus_per_node, samplerVars>>
procVars == <<args, pc, group, train_loader, sampler_epoch, model, optimizer, scheduler,
              iteration, best_acc, epoch, acc, is_best, checkpoint>>
fileVars == <<weight_dir, best_file, checkpoint_file, resume_file>>
obsVars == <<trained, nval, writes, outcomes, earlier_best, restarted, log_dir>>
vars == <<envVars, procVars, fileVars, obsVars>>

\* ----------------------------------------------------------------- helpers
Max(a, b) == IF a >= b THEN a ELSE b

Set(f, r, v) == [f EXCEPT ![r] = v]

\* Number of processes the launcher started.
NProc == IF env_world = 0 THEN 1 ELSE env_world

Ranks == 0..(NProc - 1)

\* Python int(a / b) for a >= 0, b > 0
IntDiv(a, b) == a \div b

CeilDiv(a, b) == (a + b - 1) \div b

\* ------------------------------------------------- expressions of the code
\* Variant: the check never fires.
ApexMissing_Off(a) == FALSE

\* "if args.apex and amp is None"
ApexMissing(a) == a.apex /\ ~amp

\* init_distributed_mode(args): distributed iff the launcher set the environment
IsDistributed == env_world > 0

\* save_on_master: only the main rank writes
IsMaster(r) == r = 0

\* args.batch_size = int(args.batch_size / ngpus_per_node)
ScaledBatchSize(a) ==
    IF a.distributed THEN IntDiv(a.batch_size, ngpus_per_node) ELSE a.batch_size

\* args.workers = int((args.workers + ngpus_per_node - 1) / ngpus_per_node)
ScaledWorkers(a) ==
    IF a.distributed THEN CeilDiv(a.workers, ngpus_per_node) ELSE a.workers

\* Samples the training sampler hands to one process: DistributedSampler gives
\* every rank ceil(len(dataset) / world_size), RandomSampler the whole dataset.
SamplerLen(a) == IF a.distributed THEN CeilDiv(TrainSize, NProc) ELSE TrainSize

\* Variant: the training loader keeps the ragged last batch.
LenTrainLoader_KeepLast(a) == CeilDiv(SamplerLen(a), a.batch_size)

\* len(val_loader) with drop_last=False, for a validation set of the size of
\* the training set.
LenValLoader(a) == CeilDiv(SamplerLen(a), a.batch_size)

\* len(train_loader) with drop_last=True
LenTrainLoader(a) == SamplerLen(a) \div a.batch_size

\* ---- the training sampler of dist, "DistributedSampler(train_dataset)"
Min(a, b) == IF a <= b THEN a ELSE b

\* The orders torch.randperm(n) can return: the lists holding 0..n-1 once each.
Perms(n) == {p \in [1..n -> 0..(n - 1)] :
                \A i, j \in 1..n : i # j => p[i] # p[j]}

\* num_samples = ceil(len(dataset) / num_replicas), per rank
NumSamples == CeilDiv(dataset_len, NProc)

\* total_size = num_samples * num_replicas
TotalSize == NumSamples * NProc

\* Variant: the index list is not padded.
Padded_Not(p, total) == p

\* "indices += indices[:(total_size - len(indices))]": the list is filled up to
\* total_size with its own head (a Python slice takes what is there).
Padded(p, total) == p \o SubSeq(p, 1, Min(total - Len(p), Len(p)))

\* Python "indices[r:total:n]" of the list ind.
Stride(ind, r, n) ==
    LET m == IF Len(ind) > r THEN ((Len(ind) - r - 1) \div n) + 1 ELSE 0
    IN  [k \in 1..m |-> ind[r + 1 + (k - 1) * n]]

\* What the sampler of rank r yields in epoch e: the permutation seeded by e,
\* padded, every num_replicas-th index starting at r.
DistShard(r, e) == Stride(Padded(randperm[e], TotalSize), r, NProc)

\* Variant: set_epoch is left out.
SetEpoch_Skipped(a, e, old) == old

\* "if args.distributed: train_sampler.set_epoch(epoch)": the sampler's epoch
\* after the statement, old before it.
SetEpoch(a, e, old) == IF a.distributed THEN e ELSE old

\* "is_best = acc > best_acc"
IsBest(a, best) == a > best

\* Variant: best_acc takes the last metric.
NextBestAcc_Last(e, a, best) == a

\* food101: "best_acc = max(acc, best_acc)".
\* anime, dist: "best_acc1 = max(acc, best_acc)" assigns another name, so
\* best_acc keeps its value.
NextBestAcc(e, a, best) == IF e = "food101" THEN Max(a, best) ELSE best

\* Variant: the checkpoint's epoch is run again.
ResumeStartEpoch_Same(ckpt) == ckpt.epoch

\* "args.start_epoch = checkpoint['epoch'] + 1"
ResumeStartEpoch(ckpt) == ckpt.epoch + 1

\* "iteration = args.epochs * len(train_loader)"
ResumeIteration(a, len) == a.epochs * len

\* Variant: every entry point starts its loop at epoch 1.
FirstEpoch_One(e, a) == 1

\* First epoch of "for epoch in range(first, args.epochs + 1)": food101 starts at
\* args.start_epoch, the other two at 1.
FirstEpoch(e, a) == IF e = "food101" THEN a.start_epoch ELSE 1

\* Position after the loop header was evaluated for epoch e.
LoopPc(a, e) == IF e <= a.epochs THEN "train" ELSE "done"

\* The file the evaluate branch loads: food101 its own best-weights file, the
\* other two the file args.resume names.
EvalWeights == IF entry = "food101" THEN best_file ELSE resume_file

Terminal == {"done", "exit", "error", "killed"}

\* ------------------------------------------------------------------- Init
\* Per-process state of a freshly started process.
Fresh(f) == [r \in Ranks |-> f]

Init ==
    /\ entry \in Entries
    /\ env_world \in (IF entry = "dist" THEN 0..MaxRanks ELSE {0})
    /\ ngpus_per_node \in (IF entry = "dist" THEN GpuCounts ELSE {1})
    /\ opt \in [evaluate : BOOLEAN,
                apex : BOOLEAN,
                restart : (IF entry = "food101" THEN BOOLEAN ELSE {FALSE}),
                start_epoch : (IF entry = "food101" THEN 1..(MaxEpochs + 1) ELSE {1}),
                epochs : {MaxEpochs},
                batch_size : BatchSizes,
                workers : WorkerCounts,
                distributed : {FALSE}]
    /\ amp \in (IF opt.apex THEN BOOLEAN ELSE {FALSE})
    /\ args = Fresh(opt)
    /\ pc = Fresh("start")
    /\ group = {}
    /\ train_loader = Fresh(None)
    /\ model = Fresh(None)
    /\ optimizer = Fresh(None)
    /\ scheduler = Fresh(None)
    /\ iteration = Fresh(None)
    /\ best_acc = Fresh(None)
    /\ epoch = Fresh(None)
    /\ acc = Fresh(None)
    /\ is_best = Fresh(FALSE)
    /\ checkpoint = Fresh(NoCheckpoint)
    /\ best_file \in (IF entry = "food101" /\ opt.evaluate
                      THEN {None, PriorWeights} ELSE {None})
    /\ resume_file \in (IF entry # "food101" /\ opt.evaluate
                        THEN {None, PriorWeights} ELSE {None})
    /\ checkpoint_file = NoCheckpoint
    /\ weight_dir \in (IF best_file # None THEN {TRUE} ELSE BOOLEAN)
    /\ trained = Fresh(<<>>)
    /\ nval = Fresh(0)
    /\ writes = {}
    /\ outcomes = [e \in 1..MaxEpochs |-> None]
    /\ earlier_best = 0
    /\ restarted = FALSE
    /\ log_dir = <<>>
    /\ sampler_epoch = Fresh(None)
    /\ dataset_len = TrainSize
    /\ randperm = <<>>
    /\ shards = <<>>
    /\ prev_shards = <<>>

\* ---------------------------------------------------------------- startup
\* "if args.apex and amp is None: raise RuntimeError(...)"
ApexCheck(r) ==
    /\ pc[r] = "start"
    /\ pc' = Set(pc, r, IF ApexMissing(args[r]) THEN "error" ELSE "mkdir")
    /\ UNCHANGED <<envVars, args, group, train_loader, sampler_epoch, model, optimizer, scheduler,
                   iteration, best_acc, epoch, acc, is_best, checkpoint,
                   fileVars, obsVars>>

\* Position after the output directory step.
AfterMkdir == IF entry = "dist" THEN "init_dist" ELSE "load_data"

\* food101: "os.makedirs(args.path2weight, exist_ok=True)"
Makedirs(r) ==
    /\ pc[r] = "mkdir"
    /\ entry = "food101"
    /\ weight_dir' = TRUE
    /\ pc' = Set(pc, r, AfterMkdir)
    /\ UNCHANGED <<envVars, args, group, train_loader, sampler_epoch, model, optimizer, scheduler,
                   iteration, best_acc, epoch, acc, is_best, checkpoint,
                   best_file, checkpoint_file, resume_file, obsVars>>

\* anime, dist: "if not os.path.exists('weight'):"
PathExists(r) ==
    /\ pc[r] = "mkdir"
    /\ entry # "food101"
    /\ pc' = Set(pc, r, IF weight_dir THEN AfterMkdir ELSE "os_mkdir")
    /\ UNCHANGED <<envVars, args, group, train_loader, sampler_epoch, model, optimizer, scheduler,
                   iteration, best_acc, epoch, acc, is_best, checkpoint,
                   fileVars, obsVars>>

\* anime, dist: "os.mkdir('weight')", FileExistsError if the directory is there
Mkdir(r) ==
    /\ pc[r] = "os_mkdir"
    /\ weight_dir' = TRUE
    /\ pc' = Set(pc, r, IF weight_dir THEN "error" ELSE AfterMkdir)
    /\ UNCHANGED <<envVars, args, group, train_loader, sampler_epoch, model, optimizer, scheduler,
                   iteration, best_acc, epoch, acc, is_best, checkpoint,
                   best_file, checkpoint_file, resume_file, obsVars>>

\* dist: "init_distributed_mode(args)".  Joining the group is a rendezvous of
\* all launched processes.
InitDistributedMode(r) ==
    /\ pc[r] = "init_dist"
    /\ \A q \in Ranks : pc[q] = "init_dist" \/ q \in group
    /\ group' = (IF IsDistributed THEN group \cup {r} ELSE group)
    /\ args' = Set(args, r, [args[r] EXCEPT !.distributed = IsDistributed])
    /\ pc' = Set(pc, r, "load_data")
    /\ UNCHANGED <<envVars, train_loader, sampler_epoch, model, optimizer, scheduler,
                   iteration, best_acc, epoch, acc, is_best, checkpoint,
                   fileVars, obsVars>>

\* dist lines 80-96, anime lines 56-74, food101 load_data: the per-process batch
\* size and the two DataLoaders.  DataLoader raises ValueError for a batch size
\* that is not positive.
LoadData(r) ==
    /\ pc[r] = "load_data"
    /\ LET a == [args[r] EXCEPT !.batch_size = ScaledBatchSize(args[r]),
                                !.workers = ScaledWorkers(args[r])] IN
        /\ args' = Set(args, r, a)
        /\ sampler_epoch' = Set(sampler_epoch, r, IF a.distributed THEN 0 ELSE None)
        /\ IF a.batch_size < 1
           THEN /\ pc' = Set(pc, r, "error")
                /\ UNCHANGED train_loader
           ELSE /\ pc' = Set(pc, r, "build")
                /\ train_loader' = Set(train_loader, r, LenTrainLoader(a))
    /\ UNCHANGED <<envVars, group, model, optimizer, scheduler,
                   iteration, best_acc, epoch, acc, is_best, checkpoint,
                   fileVars, obsVars>>

\* model = resnet18(pretrained=True, ...); optimizer = optim.SGD(...);
\* iteration = 0
Build(r) ==
    /\ pc[r] = "build"
    /\ model' = Set(model, r, Pretrained)
    /\ optimizer' = Set(optimizer, r, 0)
    /\ iteration' = Set(iteration, r, 0)
    /\ pc' = Set(pc, r, "branch")
    /\ UNCHANGED <<envVars, args, group, train_loader, sampler_epoch, scheduler,
                   best_acc, epoch, acc, is_best, checkpoint,
                   fileVars, obsVars>>

\* ------------------------------------------------------- evaluate / set-up
\* Epoch and position once "for epoch in range(first, args.epochs + 1)" starts
\* or continues with epoch e.
EnterEpoch(r, e) ==
    /\ pc' = Set(pc, r, LoopPc(args[r], e))
    /\ epoch' = (IF e <= args[r].epochs THEN Set(epoch, r, e) ELSE epoch)

\* "if args.evaluate:": torch.load, load_state_dict, validate, then sys.exit()
\* (anime, food101) or return (dist).  torch.load raises if the file is missing.
Evaluate(r) ==
    /\ pc[r] = "branch"
    /\ args[r].evaluate
    /\ IF EvalWeights \in {None, Partial}
       THEN /\ pc' = Set(pc, r, "error")
            /\ UNCHANGED <<model, nval>>
       ELSE /\ model' = Set(model, r, EvalWeights)
            /\ nval' = Set(nval, r, nval[r] + 1)
            /\ pc' = Set(pc, r, "exit")
    /\ UNCHANGED <<envVars, args, group, train_loader, sampler_epoch, optimizer, scheduler,
                   iteration, best_acc, epoch, acc, is_best, checkpoint,
                   fileVars, trained, writes, outcomes, earlier_best, restarted, log_dir>>

\* Variant: the evaluate branch does not leave main.
Setup_IgnoreEvaluate(r) ==
    /\ pc[r] = "branch"
    /\ scheduler' = Set(scheduler, r, 0)
    /\ best_acc' = Set(best_acc, r, 0)
    /\ IF entry = "food101"
       THEN /\ pc' = Set(pc, r, "resume")
            /\ UNCHANGED epoch
       ELSE EnterEpoch(r, FirstEpoch(entry, args[r]))
    /\ UNCHANGED <<envVars, args, group, train_loader, sampler_epoch, model, optimizer,
                   iteration, acc, is_best, checkpoint, fileVars, obsVars>>

\* Not evaluating: amp.initialize if args.apex, the parallel wrapper, the
\* scheduler and "best_acc = 0.0".  food101 goes on to the restart block, the
\* other two to the epoch loop.
Setup(r) ==
    /\ pc[r] = "branch"
    /\ ~args[r].evaluate
    /\ scheduler' = Set(scheduler, r, 0)
    /\ best_acc' = Set(best_acc, r, 0)
    /\ IF entry = "food101"
       THEN /\ pc' = Set(pc, r, "resume")
            /\ UNCHANGED epoch
       ELSE EnterEpoch(r, FirstEpoch(entry, args[r]))
    /\ UNCHANGED <<envVars, args, group, train_loader, sampler_epoch, model, optimizer,
                   iteration, acc, is_best, checkpoint, fileVars, obsVars>>

\* food101 "if args.restart:" block, then the loop header.
Resume(r) ==
    /\ pc[r] = "resume"
    /\ IF ~args[r].restart
       THEN /\ EnterEpoch(r, FirstEpoch(entry, args[r]))
            /\ UNCHANGED <<args, model, optimizer, scheduler, best_acc,
                           iteration, checkpoint>>
       ELSE IF checkpoint_file \in {NoCheckpoint, PartialCheckpoint}
       THEN /\ pc' = Set(pc, r, "error")
            /\ UNCHANGED <<args, model, optimizer, scheduler, best_acc,
                           iteration, checkpoint, epoch>>
       ELSE LET ckpt == checkpoint_file
                a == [args[r] EXCEPT !.start_epoch = ResumeStartEpoch(ckpt)]
            IN  /\ checkpoint' = Set(checkpoint, r, ckpt)
                /\ model' = Set(model, r, ckpt.model)
                /\ optimizer' = Set(optimizer, r, ckpt.optimizer)
                /\ scheduler' = Set(scheduler, r, ckpt.scheduler)
                /\ args' = Set(args, r, a)
                /\ best_acc' = Set(best_acc, r, ckpt.best_acc)
                /\ iteration' = Set(iteration, r, ResumeIteration(a, train_loader[r]))
                /\ pc' = Set(pc, r, LoopPc(a, a.start_epoch))
                /\ epoch' = (IF a.start_epoch <= a.epochs
                             THEN Set(epoch, r, a.start_epoch) ELSE epoch)
    /\ UNCHANGED <<envVars, group, train_loader, sampler_epoch, acc, is_best, fileVars, obsVars>>

\* ------------------------------------------------------------- epoch loop
Range(s) == {s[i] : i \in 1..Len(s)}

\* Process q takes part in the gradient averaging of epoch e.
InTraining(q, e) == (pc[q] = "train" /\ epoch[q] = e) \/ e \in Range(trained[q])

\* (dist: train_sampler.set_epoch(epoch);) train(...);
\* iteration += len(train_loader).  Under DistributedDataParallel every batch
\* averages gradients over all ranks, so a pass with batches needs all of them.
Train(r) ==
    /\ pc[r] = "train"
    /\ (args[r].distributed /\ train_loader[r] > 0)
          => \A q \in Ranks : InTraining(q, epoch[r])
    /\ model' = Set(model, r, epoch[r])
    /\ optimizer' = Set(optimizer, r, optimizer[r] + train_loader[r])
    /\ iteration' = Set(iteration, r, iteration[r] + train_loader[r])
    /\ trained' = Set(trained, r, Append(trained[r], epoch[r]))
    /\ sampler_epoch' = Set(sampler_epoch, r,
                            SetEpoch(args[r], epoch[r], sampler_epoch[r]))
    /\ earlier_best' = (IF r = 0 /\ acc[r] # None
                        THEN Max(earlier_best, acc[r]) ELSE earlier_best)
    /\ pc' = Set(pc, r, "validate")
    /\ UNCHANGED <<envVars, args, group, train_loader, scheduler, best_acc,
                   epoch, acc, is_best, checkpoint, fileVars,
                   nval, writes, outcomes, restarted, log_dir>>

\* "acc = validate(...)".  The metric is an input of the run.  In food101, which
\* can be launched again, the metric of an epoch is drawn the first time the
\* epoch is validated and is the same if the second launch validates it again.
Validate(r) ==
    /\ pc[r] = "validate"
    /\ \E a \in Metrics :
        /\ outcomes[epoch[r]] # None => a = outcomes[epoch[r]]
        /\ acc' = Set(acc, r, a)
        /\ outcomes' = (IF entry = "food101"
                        THEN [outcomes EXCEPT ![epoch[r]] = a] ELSE outcomes)
    /\ nval' = Set(nval, r, nval[r] + 1)
    /\ pc' = Set(pc, r, "scheduler")
    /\ UNCHANGED <<envVars, args, group, train_loader, sampler_epoch, model, optimizer, scheduler,
                   iteration, best_acc, epoch, is_best, checkpoint, fileVars,
                   trained, writes, earlier_best, restarted, log_dir>>

\* "scheduler.step()"
SchedulerStep(r) ==
    /\ pc[r] = "scheduler"
    /\ scheduler' = Set(scheduler, r, scheduler[r] + 1)
    /\ pc' = Set(pc, r, "select")
    /\ UNCHANGED <<envVars, args, group, train_loader, sampler_epoch, model, optimizer,
                   iteration, best_acc, epoch, acc, is_best, checkpoint,
                   fileVars, obsVars>>

\* "is_best = acc > best_acc", the max line, "if is_best:"
SelectBest(r) ==
    /\ pc[r] = "select"
    /\ is_best' = Set(is_best, r, IsBest(acc[r], best_acc[r]))
    /\ best_acc' = Set(best_acc, r, NextBestAcc(entry, acc[r], best_acc[r]))
    /\ IF IsBest(acc[r], best_acc[r])
       THEN /\ pc' = Set(pc, r, "save_best")
            /\ UNCHANGED epoch
       ELSE EnterEpoch(r, epoch[r] + 1)
    /\ UNCHANGED <<envVars, args, group, train_loader, sampler_epoch, model, optimizer, scheduler,
                   iteration, acc, checkpoint, fileVars, obsVars>>

\* A torch.save by process r in epoch e to the named file.
Write(r, e, f) == [rank |-> r, epoch |-> e, file |-> f]

\* anime, food101: torch.save(model.state_dict(), best path);
\* dist: save_on_master(...), which saves on the main rank only.
\* The save opens the file, which truncates it.
SaveBest(r) ==
    /\ pc[r] = "save_best"
    /\ IF entry = "dist" => IsMaster(r)
       THEN /\ best_file' = Partial
            /\ pc' = Set(pc, r, "write_best")
            /\ UNCHANGED epoch
       ELSE /\ UNCHANGED best_file
            /\ EnterEpoch(r, epoch[r] + 1)
    /\ UNCHANGED <<envVars, args, group, train_loader, sampler_epoch, model, optimizer, scheduler,
                   iteration, best_acc, acc, is_best, checkpoint,
                   weight_dir, checkpoint_file, resume_file, obsVars>>

\* The save of the best weights writes the state dict out and returns.
WriteBest(r) ==
    /\ pc[r] = "write_best"
    /\ best_file' = model[r]
    /\ writes' = writes \cup {Write(r, epoch[r], "best")}
    /\ IF entry = "food101"
       THEN /\ pc' = Set(pc, r, "save_checkpoint")
            /\ UNCHANGED epoch
       ELSE EnterEpoch(r, epoch[r] + 1)
    /\ UNCHANGED <<envVars, args, group, train_loader, sampler_epoch, model, optimizer, scheduler,
                   iteration, best_acc, acc, is_best, checkpoint,
                   weight_dir, checkpoint_file, resume_file,
                   trained, nval, outcomes, earlier_best, restarted, log_dir>>

\* food101: "checkpoint = {...}; torch.save(checkpoint, checkpoint path)",
\* inside "if is_best:".  The save opens the file, which truncates it.
SaveCheckpoint(r) ==
    /\ pc[r] = "save_checkpoint"
    /\ LET ckpt == [model |-> model[r], optimizer |-> optimizer[r],
                    scheduler |-> scheduler[r], epoch |-> epoch[r],
                    best_acc |-> best_acc[r]]
       IN  checkpoint' = Set(checkpoint, r, ckpt)
    /\ checkpoint_file' = PartialCheckpoint
    /\ pc' = Set(pc, r, "write_checkpoint")
    /\ UNCHANGED <<envVars, args, group, train_loader, sampler_epoch, model, optimizer, scheduler,
                   iteration, best_acc, epoch, acc, is_best,
                   weight_dir, best_file, resume_file, obsVars>>

\* The save of the checkpoint writes the dict out and returns.
WriteCheckpoint(r) ==
    /\ pc[r] = "write_checkpoint"
    /\ checkpoint_file' = checkpoint[r]
    /\ writes' = writes \cup {Write(r, epoch[r], "checkpoint")}
    /\ EnterEpoch(r, epoch[r] + 1)
    /\ UNCHANGED <<envVars, args, group, train_loader, sampler_epoch, model, optimizer, scheduler,
                   iteration, best_acc, acc, is_best, checkpoint,
                   weight_dir, best_file, resume_file,
                   trained, nval, outcomes, earlier_best, restarted, log_dir>>

\* ------------------------------------------------------ stop and relaunch
\* The food101 process ends, finished or killed from outside: its memory is
\* gone, the files stay.  The log keeps what the launch did.
Kill(r) ==
    /\ entry = "food101"
    /\ ~restarted
    /\ pc[r] \notin {"exit", "error", "killed"}
    /\ log_dir' = Append(log_dir, [args |-> opt, trained |-> trained[r], pc |-> pc[r]])
    /\ pc' = Set(pc, r, "killed")
    /\ args' = Fresh(opt)
    /\ train_loader' = Fresh(None)
    /\ sampler_epoch' = Fresh(None)
    /\ model' = Fresh(None)
    /\ optimizer' = Fresh(None)
    /\ scheduler' = Fresh(None)
    /\ iteration' = Fresh(None)
    /\ best_acc' = Fresh(None)
    /\ epoch' = Fresh(None)
    /\ acc' = Fresh(None)
    /\ is_best' = Fresh(FALSE)
    /\ checkpoint' = Fresh(NoCheckpoint)
    /\ trained' = Fresh(<<>>)
    /\ nval' = Fresh(0)
    /\ earlier_best' = 0
    /\ UNCHANGED <<envVars, group, fileVars, writes, outcomes, restarted>>

\* The user starts food101 again, with or without --restart.
Relaunch ==
    /\ entry = "food101"
    /\ ~restarted
    /\ pc[0] = "killed"
    /\ restarted' = TRUE
    /\ \E flag \in BOOLEAN :
        /\ opt' = [opt EXCEPT !.restart = flag]
        /\ args' = Fresh(opt')
    /\ pc' = Fresh("start")
    /\ writes' = {}
    /\ UNCHANGED <<entry, amp, env_world, ngpus_per_node, group, train_loader, sampler_epoch,
                   model, optimizer, scheduler, iteration, best_acc, epoch, acc,
                   is_best, checkpoint, fileVars, trained, nval, outcomes,
                   earlier_best, log_dir, samplerVars>>

\* ------------------------------------------------------------------- Spec
Next ==
    \/ \E r \in Ranks : ApexCheck(r)
    \/ \E r \in Ranks : Makedirs(r)
    \/ \E r \in Ranks : PathExists(r)
    \/ \E r \in Ranks : Mkdir(r)
    \/ \E r \in Ranks : InitDistributedMode(r)
    \/ \E r \in Ranks : LoadData(r)
    \/ \E r \in Ranks : Build(r)
    \/ \E r \in Ranks : Evaluate(r)
    \/ \E r \in Ranks : Setup(r)
    \/ \E r \in Ranks : Resume(r)
    \/ \E r \in Ranks : Train(r)
    \/ \E r \in Ranks : Validate(r)
    \/ \E r \in Ranks : SchedulerStep(r)
    \/ \E r \in Ranks : SelectBest(r)
    \/ \E r \in Ranks : SaveBest(r)
    \/ \E r \in Ranks : WriteBest(r)
    \/ \E r \in Ranks : SaveCheckpoint(r)
    \/ \E r \in Ranks : WriteCheckpoint(r)
    \/ \E r \in Ranks : Kill(r)
    \/ Relaunch

Spec == Init /\ [][Next]_vars

\* A step of process r other than being killed from outside.
Step(r) ==
    \/ ApexCheck(r) \/ Makedirs(r) \/ PathExists(r) \/ Mkdir(r)
    \/ InitDistributedMode(r) \/ LoadData(r) \/ Build(r)
    \/ Evaluate(r) \/ Setup(r) \/ Resume(r)
    \/ Train(r) \/ Validate(r) \/ SchedulerStep(r) \/ SelectBest(r)
    \/ SaveBest(r) \/ WriteBest(r) \/ SaveCheckpoint(r) \/ WriteCheckpoint(r)

\* The operating system schedules every process that can take a step.
Fairness == \A r \in 0..(MaxRanks - 1) : WF_vars(r \in Ranks /\ Step(r))

LiveSpec == Init /\ [][Next]_vars /\ Fairness

\* ------------------------------------------- the sampler on its own inputs
\* A distributed run of dist standing at the epoch loop, for every world size,
\* every dataset size and every permutation the generator can draw per epoch.
InitSampler ==
    /\ entry = "dist"
    /\ env_world \in 1..MaxRanks
    /\ ngpus_per_node = 1
    /\ opt = [evaluate |-> FALSE, apex |-> FALSE, restart |-> FALSE,
              start_epoch |-> 1, epochs |-> MaxEpochs, batch_size |-> 1,
              workers |-> 1,
              distributed |-> FALSE]
    /\ amp = FALSE
    /\ args = Fresh([opt EXCEPT !.distributed = TRUE])
    /\ pc = Fresh("train")
    /\ group = Ranks
    /\ dataset_len \in 1..TrainSize
    /\ randperm \in [1..MaxEpochs -> Perms(dataset_len)]
    /\ train_loader = Fresh(NumSamples)
    /\ sampler_epoch = Fresh(0)
    /\ shards = Fresh(<<>>)
    /\ prev_shards = Fresh(<<>>)
    /\ model = Fresh(Pretrained)
    /\ optimizer = Fresh(0)
    /\ scheduler = Fresh(0)
    /\ iteration = Fresh(0)
    /\ best_acc = Fresh(0)
    /\ epoch = Fresh(1)
    /\ acc = Fresh(None)
    /\ is_best = Fresh(FALSE)
    /\ checkpoint = Fresh(NoCheckpoint)
    /\ weight_dir = TRUE
    /\ best_file = None
    /\ checkpoint_file = NoCheckpoint
    /\ resume_file = None
    /\ trained = Fresh(<<>>)
    /\ nval = Fresh(0)
    /\ writes = {}
    /\ outcomes = [e \in 1..MaxEpochs |-> None]
    /\ earlier_best = 0
    /\ restarted = FALSE
    /\ log_dir = <<>>

\* dist lines 133-135 on every rank: train_sampler.set_epoch(epoch), then the
\* training pass draws the rank's indices from the sampler.
SamplerEpoch ==
    /\ sampler_epoch[0] < MaxEpochs
    /\ LET e == sampler_epoch[0] + 1 IN
        /\ sampler_epoch' = [r \in Ranks |-> SetEpoch(args[r], e, sampler_epoch[r])]
        /\ prev_shards' = shards
        /\ shards' = [r \in Ranks |-> DistShard(r, sampler_epoch'[r])]
        /\ epoch' = Fresh(e)
    /\ UNCHANGED <<entry, opt, amp, env_world, ngpus_per_node, dataset_len, randperm,
                   args, pc, group, train_loader, model, optimizer, scheduler,
                   iteration, best_acc, acc, is_best, checkpoint,
                   fileVars, obsVars>>

NextSampler == SamplerEpoch

SpecSampler == InitSampler /\ [][NextSampler]_vars

\* ----------------------------------------------------------------- claims
\* The epoch process r finished last (it stands at the next loop header).
LastEpoch(r) == trained[r][Len(trained[r])]

\* Process r finished an epoch and stands at the loop header or behind the loop.
EpochDone(r) == pc[r] \in {"train", "done"} /\ Len(trained[r]) > 0 /\ acc[r] # None

\* The last epoch's metric beats every earlier epoch's of this launch and 0.0.
Improved == acc[0] > earlier_best

BestWrites(e) == {w \in writes : w.epoch = e /\ w.file = "best"}

\* C1: in every entry point, in a launch that starts a run (no --restart), the
\* best-weights file is written in epoch e iff the metric of e is strictly
\* greater than the metric of every earlier epoch and than 0.0, and then the
\* file holds the weights of epoch e.
C1_BestWrittenIffImproved ==
    (~opt.restart /\ EpochDone(0)) =>
        /\ (BestWrites(LastEpoch(0)) # {}) <=> Improved
        /\ Improved => best_file = LastEpoch(0)

\* C2: best_acc of a process never decreases, from the moment it is set, through
\* the restart block and the epochs after it.
C2_BestAccMonotone ==
    [][\A r \in Ranks :
        (best_acc[r] # None /\ best_acc'[r] # None) => best_acc'[r] >= best_acc[r]]_vars

\* C2 witness: after a restart, an epoch raised best_acc above the value the
\* restart block installed from the checkpoint.
C2_Witness ==
    /\ restarted
    /\ args[0].restart
    /\ pc[0] = "save_checkpoint"
    /\ checkpoint[0] # NoCheckpoint
    /\ best_acc[0] > checkpoint[0].best_acc

\* C3: in food101, after epoch e completes the resume checkpoint file is the one
\* written in epoch e.
C3_CheckpointEveryEpoch ==
    (entry = "food101" /\ EpochDone(0)) => checkpoint_file.epoch = LastEpoch(0)

\* Final best_acc of food101 training epochs e..MaxEpochs without interruption,
\* on the metrics in outcomes.
RECURSIVE UninterruptedBest(_, _)
UninterruptedBest(e, best) ==
    IF e > MaxEpochs THEN best
    ELSE UninterruptedBest(e + 1, NextBestAcc("food101", outcomes[e], best))

HalfEpochs == MaxEpochs \div 2

\* The first launch trained epochs 1..E/2 from scratch and was stopped at the
\* next loop header; the second launch runs with --restart.
StoppedHalfway ==
    /\ entry = "food101"
    /\ restarted
    /\ opt.restart
    /\ ~log_dir[1].args.restart
    /\ log_dir[1].args.start_epoch = 1
    /\ log_dir[1].pc = "train"
    /\ log_dir[1].trained = [i \in 1..HalfEpochs |-> i]

\* C4: a run stopped after E/2 epochs and restarted with --restart finishes, with
\* the final best_acc of the uninterrupted run, every epoch 1..E trained once.
C4_ResumeEquivalence ==
    StoppedHalfway =>
        /\ pc[0] # "error"
        /\ pc[0] = "done" =>
            /\ best_acc[0] = UninterruptedBest(1, 0)
            /\ log_dir[1].trained \o trained[0] = [i \in 1..MaxEpochs |-> i]

\* Process r went through the restart block and has not trained an epoch yet.
JustResumed(r) == args[r].restart /\ pc[r] = "train" /\ Len(trained[r]) = 0

\* C5: with --restart the first epoch executed is checkpoint epoch + 1 and
\* best_acc, model, optimizer and scheduler are the checkpoint's; without it
\* nothing is loaded and the loop starts from the configured values.
C5_ResumeRestores ==
    \A r \in Ranks :
        /\ JustResumed(r) =>
            /\ checkpoint[r] = checkpoint_file
            /\ epoch[r] = checkpoint_file.epoch + 1
            /\ best_acc[r] = checkpoint_file.best_acc
            /\ model[r] = checkpoint_file.model
            /\ optimizer[r] = checkpoint_file.optimizer
            /\ scheduler[r] = checkpoint_file.scheduler
        /\ (~args[r].restart /\ pc[r] = "train" /\ Len(trained[r]) = 0) =>
            /\ checkpoint[r] = NoCheckpoint
            /\ epoch[r] = FirstEpoch(entry, opt)
            /\ best_acc[r] = 0
            /\ model[r] = Pretrained
            /\ optimizer[r] = 0
            /\ scheduler[r] = 0

C5_Witness == restarted /\ JustResumed(0) /\ epoch[0] = 2

\* C6: after the restart block the iteration counter is (epochs the checkpoint
\* says are complete) x (training batches per epoch).
C6_ResumeIteration ==
    \A r \in Ranks :
        JustResumed(r) => iteration[r] = checkpoint[r].epoch * train_loader[r]

\* C7: in a distributed run of dist, only rank 0 writes the best-weights file,
\* once in an epoch that improved the best score and not at all in an epoch
\* that did not.
C7_OneWritePerImprovement ==
    (entry = "dist" /\ IsDistributed) =>
        /\ \A w \in writes : w.rank = 0
        /\ EpochDone(0) =>
            Cardinality(BestWrites(LastEpoch(0))) = (IF Improved THEN 1 ELSE 0)

\* C8: a process in evaluate-only mode never trains, never steps the optimizer
\* or the scheduler, never enters the loop, writes no file, and when it leaves
\* it has loaded the weights file and validated exactly once.
C8_EvaluateOnly ==
    \A r \in Ranks :
        args[r].evaluate =>
            /\ trained[r] = <<>>
            /\ optimizer[r] \in {None, 0}
            /\ scheduler[r] = None
            /\ iteration[r] \in {None, 0}
            /\ epoch[r] = None
            /\ writes = {}
            /\ checkpoint_file = NoCheckpoint
            /\ nval[r] <= 1
            /\ pc[r] \notin {"resume", "train", "validate", "scheduler", "select",
                             "save_best", "write_best", "save_checkpoint",
                             "write_checkpoint", "done"}
            /\ pc[r] = "exit" => (nval[r] = 1 /\ model[r] = EvalWeights)

C8_Witness == entry = "dist" /\ NProc = 2 /\ \A r \in Ranks : pc[r] = "exit"

\* C9: with apex requested and not importable, a process never gets past the
\* check: no loader, no group, no model, no optimizer, no file or directory
\* written, no training or validation; the step it takes ends in the error.
C9_ApexFailFast ==
    /\ [](\A r \in Ranks :
            (args[r].apex /\ ~amp) =>
                /\ pc[r] \in {"start", "error", "killed"}
                /\ train_loader[r] = None
                /\ model[r] = None
                /\ optimizer[r] = None
                /\ r \notin group
                /\ trained[r] = <<>>
                /\ nval[r] = 0
                /\ writes = {})
    /\ [][(opt.apex /\ ~amp) =>
            /\ UNCHANGED fileVars
            /\ \A r \in Ranks :
                (pc[r] = "start" /\ pc'[r] # "start") => pc'[r] \in {"error", "killed"}]_vars

C9_Witness == opt.apex /\ ~amp /\ entry = "dist" /\ \A r \in Ranks : pc[r] = "error"

\* C10: after the training pass of epoch e and before its validation pass the
\* iteration counter is e x (training batches per epoch).
C10_IterationAtBoundary ==
    \A r \in Ranks :
        pc[r] = "validate" => iteration[r] = epoch[r] * train_loader[r]

\* No process is inside a torch.save.
NoWriteInProgress == \A r \in Ranks : pc[r] \notin {"write_best", "write_checkpoint"}

\* C11: whenever no save is running, the best-weights file and the resume
\* checkpoint are each absent or a complete snapshot: a save that was
\* interrupted left the file as it was before.
C11_FilesNeverPartial ==
    NoWriteInProgress =>
        /\ best_file # Partial
        /\ checkpoint_file # PartialCheckpoint
\* The samplers have drawn the indices of an epoch.
Iterated == randperm # <<>> /\ sampler_epoch[0] >= 1

\* How often sample i occurs in the shards of all ranks together.
Occ(i) == Cardinality({x \in Ranks \X (1..dataset_len) :
                          x[2] <= Len(shards[x[1]]) /\ shards[x[1]][x[2]] = i})

\* The samples each rank holds.
ShardSets(sh) == [r \in Ranks |-> Range(sh[r])]

RunEnded(r) == pc[r] \in {"done", "exit"}

\* C13: at the end of a run the parsed arguments hold the values they were
\* constructed with: start epoch, batch size, worker count and epoch count.
C13_ConfigReadOnly ==
    \A r \in Ranks : RunEnded(r) =>
        /\ args[r].start_epoch = opt.start_epoch
        /\ args[r].batch_size = opt.batch_size
        /\ args[r].workers = opt.workers
        /\ args[r].epochs = opt.epochs

\* The training set has the size B*k + rem with 0 < rem < B for batch size B.
Ragged(B, k, rem) == TrainSize = B * k + rem /\ 0 < rem /\ rem < B

\* C14: in a single-process run over a set of size B*k + rem (0 < rem < B) a
\* training pass is k batches and adds exactly k to the iteration counter, and
\* a validation pass over a set of that size is k + 1 batches.
C14_DropLast ==
    [][\A r \in Ranks : \A k, rem \in 0..TrainSize :
          (/\ ~args[r].distributed
           /\ pc[r] = "train" /\ pc'[r] = "validate"
           /\ Ragged(args[r].batch_size, k, rem))
          => /\ train_loader[r] = k
             /\ optimizer'[r] = optimizer[r] + k
             /\ iteration'[r] = iteration[r] + k
             /\ LenValLoader(args[r]) = k + 1]_vars

\* anime after two training passes over 3 samples in batches of 2.
C14_Witness ==
    /\ entry = "anime"
    /\ pc[0] = "validate"
    /\ args[0].batch_size = 2
    /\ Ragged(2, 1, 1)
    /\ Len(trained[0]) = 2
    /\ iteration[0] = 2

\* Positions inside the epoch loop, and behind it.
LoopPcs == {"train", "validate", "scheduler", "select", "save_best",
            "write_best", "save_checkpoint", "write_checkpoint"}

InLoop(r) == pc[r] \in LoopPcs \cup {"done"}

\* Number of epochs from start_epoch to the epoch count.
EpochsToRun(a) == Max(0, a.epochs - a.start_epoch + 1)

\* The passes of process r so far are those of the epochs start_epoch,
\* start_epoch + 1, ... in this order, each validated and scheduled once.
LoopCounts(r) ==
    /\ \A i \in 1..Len(trained[r]) : trained[r][i] = args[r].start_epoch + i - 1
    /\ nval[r] = Len(trained[r]) - (IF pc[r] = "validate" THEN 1 ELSE 0)
    /\ ~args[r].restart =>
          scheduler[r] = Len(trained[r])
                           - (IF pc[r] \in {"validate", "scheduler"} THEN 1 ELSE 0)
    /\ pc[r] = "done" => Len(trained[r]) = EpochsToRun(args[r])

\* Inside an epoch the steps follow each other as training pass, validation
\* pass, scheduler step, select-best and saves; the scheduler moves by one, at
\* its step only.
LoopOrder(r) ==
    /\ pc[r] = "train" => pc'[r] \in {"train", "validate", "killed"}
    /\ pc[r] = "validate" => pc'[r] \in {"validate", "scheduler", "killed"}
    /\ pc[r] = "scheduler" => pc'[r] \in {"scheduler", "select", "killed"}
    /\ pc[r] = "select" => pc'[r] \in {"select", "save_best", "train", "done", "killed"}
    /\ (pc[r] \in LoopPcs /\ pc'[r] \in LoopPcs /\ scheduler'[r] # scheduler[r])
          => /\ pc[r] = "scheduler"
             /\ pc'[r] = "select"
             /\ scheduler'[r] = scheduler[r] + 1
    /\ (pc[r] \in LoopPcs /\ pc'[r] \in LoopPcs /\ trained'[r] # trained[r])
          => /\ pc[r] = "train"
             /\ pc'[r] = "validate"
             /\ trained'[r] = Append(trained[r], epoch[r])

\* C15: without evaluate-only the loop runs the epochs start_epoch ..
\* epoch count in increasing order, each once (none if start_epoch is greater),
\* every epoch as one training pass, one validation pass, one scheduler step
\* and the select-best step in this order, and a loop that is not killed
\* reaches its end.
C15_EpochLoop ==
    /\ [](\A r \in Ranks : InLoop(r) => LoopCounts(r))
    /\ [][\A r \in Ranks : LoopOrder(r)]_vars
    /\ \A r \in 0..(MaxRanks - 1) :
          (r \in Ranks /\ InLoop(r)) ~> (r \in Ranks /\ pc[r] \in {"done", "killed"})

\* food101 behind a loop that ran both epochs.
C15_Witness ==
    /\ entry = "food101"
    /\ ~args[0].restart
    /\ pc[0] = "done"
    /\ trained[0] = <<1, 2>>
    /\ nval[0] = 2
    /\ scheduler[0] = 2

\* C16: in a distributed run the sampler of every rank was set to epoch e
\* before the rank's training pass of e, so the pass never ran under an earlier
\* epoch's value, and ranks that did equally many passes hold the same epoch;
\* without distribution set_epoch is never called.
C16_SetEpochBeforeTrain ==
    \A r \in Ranks :
        /\ (args[r].distributed /\ Len(trained[r]) > 0)
              => /\ sampler_epoch[r] = LastEpoch(r)
                 /\ \A q \in Ranks : Len(trained[q]) = Len(trained[r])
                                         => sampler_epoch[q] = sampler_epoch[r]
        /\ ~args[r].distributed => sampler_epoch[r] = None

\* Two ranks after their second training pass.
C16_Witness ==
    /\ entry = "dist"
    /\ NProc = 2
    /\ \A r \in Ranks : /\ args[r].distributed
                         /\ trained[r] = <<1, 2>>
                         /\ sampler_epoch[r] = 2

\* Positions of the directory-creation step.
MkdirPcs == {"mkdir", "os_mkdir"}

\* C17: a process that leaves the directory-creation step (and is not killed
\* there) leaves it without an error and with the directory in place, whatever
\* the other ranks did in between.
C17_ConcurrentMkdir ==
    [][\A r \in Ranks :
          (pc[r] \in MkdirPcs /\ pc'[r] \notin MkdirPcs \cup {"killed"})
          => /\ pc'[r] = AfterMkdir
             /\ weight_dir']_vars

\* Process r has ended: behind the loop, after evaluation, or with an exception.
Ended(r) == pc[r] \in {"done", "exit", "error"}

\* Ranks of a distributed run hold loaders of the same number of batches and
\* the same evaluate flag.
RanksAlike ==
    \A r, q \in Ranks :
        /\ args[r].evaluate = args[q].evaluate
        /\ (args[r].distributed /\ args[q].distributed
             /\ train_loader[r] # None /\ train_loader[q] # None)
              => train_loader[r] = train_loader[q]

SavePcs == {"save_best", "write_best", "save_checkpoint", "write_checkpoint"}

\* C19: in food101, whenever a complete resume checkpoint is on disk and no
\* process is in its save step, the checkpoint's model state is the contents
\* of the best-weights file, its epoch is the epoch that wrote the best
\* weights last, and its best_acc is the validation metric of that epoch.
C19_CheckpointMatchesBest ==
    (/\ entry = "food101"
     /\ checkpoint_file \notin {NoCheckpoint, PartialCheckpoint}
     /\ best_file # Partial
     /\ \A r \in Ranks : pc[r] \notin SavePcs)
    => /\ checkpoint_file.model = best_file
       /\ checkpoint_file.epoch = best_file
       /\ checkpoint_file.best_acc = outcomes[checkpoint_file.epoch]

====
